---- MODULE Spec2Model ----
(***************************************************************************)
(* A model of the two chart tools of dynahist:                             *)
(*                                                                         *)
(*   charts/charts.py               the snapshot charts: a module-level    *)
(*                                  script that reads four result files,   *)
(*                                  matches every row against `config`     *)
(*                                  and renders one chart per file;        *)
(*   python/benchmark_evaluation.py the history tool: reads a directory of *)
(*                                  JSON result files, groups the records  *)
(*                                  and writes one chart per group.        *)
(*                                                                         *)
(* Python values are represented as follows.                               *)
(*   str            a TLA+ string; "+" on strings is \o                    *)
(*   list / tuple   a sequence (0-based index i is position i + 1)         *)
(*   None / int     Absent == <<>> / Index(i) == <<i>> for an Optional[int] *)
(*   a file's text  a sequence of tokens: a token is a line's fields (a    *)
(*                  non-empty sequence of strings) or the newline NL       *)
(*   float          an integer; Float parses the numerals of the model     *)
(***************************************************************************)
EXTENDS Integers, Sequences, FiniteSets, TLC

(***************************************************************************)
(* Bounds of the model.                                                    *)
(***************************************************************************)
MaxConfig == 3        \* longest configuration list handed to the matchers
MaxLoadConfig == 2    \* longest configuration list of the snapshot script
MaxLines == 4         \* most lines (header included) of a snapshot file
MaxRecords == 2       \* most records in the JSON files of the input directory

VARIABLES
  literal,    \* charts.py: the list written at lines 27-49
  config,     \* charts.py: the global `config` (after line 51)
  call,       \* the last matcher call: [fn, label, result]
  section,    \* charts.py: which of the four file sections is running
  pc,         \* charts.py: position inside the section
  text,       \* charts.py: content of the file the section opened
  data,       \* charts.py: `data`
  k,          \* charts.py: number of elements of the for loop already done
  sizes,      \* charts.py: `sizes`
  values,     \* charts.py: `values`
  err,        \* charts.py: the exception that ended the script, if any
  figures     \* charts.py: the figure files written so far

chartVars == <<literal, config, call, section, pc, text, data, k, sizes,
               values, err, figures>>

VARIABLES
  dir,        \* benchmark_evaluation.py: the entries of --in-path
  git_repo,   \* benchmark_evaluation.py: whether --git-path names a repository
  show_ci,    \* benchmark_evaluation.py: --show-confidence-interval
  run,        \* which run of the tool this is: "first" or "second"
  hpc,        \* benchmark_evaluation.py: position inside main
  df,         \* benchmark_evaluation.py: `df` of main, a sequence of rows
  done,       \* benchmark_evaluation.py: groups of the for loop already done
  written,    \* the make_chart calls of this run that saved their figure
  previous    \* how the first run ended: its status, df and written

histVars == <<dir, git_repo, show_ci, run, hpc, df, done, written, previous>>

vars == <<chartVars, histVars>>

(***************************************************************************)
(* Python helpers.                                                         *)
(***************************************************************************)
Absent == <<>>
Index(i) == <<i>>

\* faulty variant of ReverseList: the list is left as written
KeepOrder(s) == s

RECURSIVE ReverseList(_)
ReverseList(s) ==
  IF s = <<>> THEN <<>> ELSE ReverseList(Tail(s)) \o <<Head(s)>>

Range(s) == { s[i] : i \in 1..Len(s) }

SeqsUpTo(S, n) == UNION { [1..m -> S] : m \in 0..n }

\* list[idx] = v with Python's index rules; <<>> stands for IndexError
RECURSIVE ListSet(_,_,_)
ListSet(list, idx, v) ==
  IF idx < 0 THEN
    (IF idx + Len(list) < 0 THEN <<>> ELSE ListSet(list, idx + Len(list), v))
  ELSE IF idx >= Len(list) THEN <<>>
  ELSE << [list EXCEPT ![idx + 1] = v] >>

(***************************************************************************)
(* charts.py, lines 27-63: the configuration list and the two matchers.    *)
(***************************************************************************)
Prefix == "RecordingSpeedBenchmark.record"

\* (display name, result key) pairs the configuration lists are drawn from
MatcherEntries == { <<d, r>> : d \in {"A", "B"}, r \in {"A", "B", "a"} }
LoaderEntries == { <<"A", "A">>, <<"B", "B">> }

\* labels that do not start with Prefix, and labels that do
PlainLabels == {"", "A", "B", "a", "record" \o "A"}
PrefixedLabels == { Prefix \o x : x \in {"", "A", "B", "a", "AB"} }
Labels == PlainLabels \cup PrefixedLabels

\* for i in range(start, len(config)): if config[i][0] == label: return i
RECURSIVE ScanSpace(_,_)
ScanSpace(label, i) ==
  IF i >= Len(config) THEN Absent
  ELSE IF config[i + 1][1] = label THEN Index(i)
  ELSE ScanSpace(label, i + 1)

\* faulty variant: the scan starts at range(1, len(config))
SpaceIndexSkippingFirst(label) == ScanSpace(label, 1)

\* faulty variant: the scan compares config[i][1], the result key
SpaceIndexByResultKey(label) ==
  LET hits == { i \in 0..(Len(config) - 1) : config[i + 1][2] = label }
  IN  IF hits = {} THEN Absent
      ELSE Index(CHOOSE i \in hits : \A j \in hits : i <= j)

\* faulty variant: -1 instead of None when nothing matches
SpaceIndexMinusOneForNoMatch(label) ==
  IF ScanSpace(label, 0) = Absent THEN Index(-1) ELSE ScanSpace(label, 0)

get_index_for_space_consumption_benchmark(label) == ScanSpace(label, 0)

\* for i: if label == "RecordingSpeedBenchmark.record" + config[i][1]: return i
RECURSIVE ScanSpeed(_,_)
ScanSpeed(label, i) ==
  IF i >= Len(config) THEN Absent
  ELSE IF label = Prefix \o config[i + 1][2] THEN Index(i)
  ELSE ScanSpeed(label, i + 1)

\* faulty variant: the label may also be the bare key
SpeedIndexIgnoringPrefix(label) ==
  LET hits == { i \in 0..(Len(config) - 1) :
                  label \in {config[i + 1][2], Prefix \o config[i + 1][2]} }
  IN  IF hits = {} THEN Absent
      ELSE Index(CHOOSE i \in hits : \A j \in hits : i <= j)

get_index_for_recording_speed_benchmark(label) == ScanSpeed(label, 0)

(***************************************************************************)
(* charts.py, lines 113-180: the four file sections.                       *)
(***************************************************************************)
NL == <<"\n">>
EmptyLine == <<>>

SpaceRows == { <<"A", "1.0">>, <<"B", "2.0">>, <<"C", "9.0">>, <<"A", "2.0">> }
SpeedRows == { <<Prefix \o "A", "avgt", "5", "1.0">>,
               <<Prefix \o "B", "avgt", "5", "2.0">>,
               <<"A", "avgt", "5", "9.0">>,
               <<Prefix \o "A", "avgt">> }

\* the text of a file with the given lines: "\n".join(lines)
RECURSIVE JoinLines(_)
JoinLines(ls) ==
  IF Len(ls) = 0 THEN <<>>
  ELSE LET first == IF Head(ls) = EmptyLine THEN <<>> ELSE <<Head(ls)>>
       IN  IF Len(ls) = 1 THEN first
           ELSE first \o <<NL>> \o JoinLines(Tail(ls))

TextsOf(rows) ==
  { JoinLines(ls) :
      ls \in UNION { [1..m -> rows \cup {EmptyLine}] : m \in 1..MaxLines } }
SpaceTexts == TextsOf(SpaceRows)
SpeedTexts == TextsOf(SpeedRows)

\* str.split('\n'): one element more than there are newlines
RECURSIVE SplitLines(_)
SplitLines(t) ==
  IF t = <<>> THEN <<EmptyLine>>
  ELSE LET rest == SplitLines(Tail(t))
       IN  IF Head(t) = NL THEN <<EmptyLine>> \o rest
           ELSE <<Head(t) \o Head(rest)>> \o Tail(rest)

\* list.pop(): the list without its last element
Pop(list) == SubSeq(list, 1, Len(list) - 1)

\* f.readline(): what is left of the text after its first line
RECURSIVE AfterReadline(_)
AfterReadline(t) ==
  IF t = <<>> THEN <<>>
  ELSE IF Head(t) = NL THEN Tail(t)
  ELSE AfterReadline(Tail(t))

\* x.split(';'): the empty string splits into one empty field
SplitSemicolon(x) == IF x = EmptyLine THEN <<"">> ELSE x

\* x.split(): the empty string splits into no field
SplitWhitespace(x) == x

\* float(x) on the numerals of the model; anything else is a ValueError
Numerals == {"1.0", "2.0", "9.0", "5"}
Float(x) ==
  CASE x = "1.0" -> 1 [] x = "2.0" -> 2 [] x = "9.0" -> 9 [] x = "5" -> 5

AllNumerals(fields) == \A i \in 1..Len(fields) : fields[i] \in Numerals
Floats(fields) == [i \in 1..Len(fields) |-> Float(fields[i])]

\* the entries of `values`: the "" placeholder, a list of floats, a float
NoData == [tag |-> "str", v |-> <<>>]
FloatList(fs) == [tag |-> "list", v |-> fs]
FloatValue(f) == [tag |-> "float", v |-> <<f>>]

\* [""] * len(config)
Placeholders == [i \in 1..Len(config) |-> NoData]

SpaceSections == 1..3
SpeedSection == 4
FigureName(s) ==
  CASE s = 1 -> "memory-footprint"
    [] s = 2 -> "serialization-size-compressed"
    [] s = 3 -> "serialization-size-raw"
    [] s = 4 -> "recording-speed"

\* an uncaught exception ends the script: its type and the statement raising
NoError == [type |-> "none", at |-> "none"]
Fail(e, where) == pc' = "failed" /\ err' = [type |-> e, at |-> where]

\* lines 115-121 (130-138, 147-155): open, read, split, pop, sizes, values
ReadSpaceFile ==
  /\ pc = "open" /\ section \in SpaceSections
  /\ \E t \in SpaceTexts :
       LET d == Pop(SplitLines(t))
           header == Tail(SplitSemicolon(d[1]))
       IN  /\ text' = t
           /\ data' = d
           /\ k' = 0
           /\ IF d = <<>>
                THEN Fail("IndexError", "header") /\ UNCHANGED <<sizes, values>>
              ELSE IF ~AllNumerals(header)
                THEN Fail("ValueError", "header") /\ UNCHANGED <<sizes, values>>
              ELSE /\ sizes' = Floats(header)
                   /\ values' = Placeholders
                   /\ pc' = IF Len(d) = 1 THEN "chart" ELSE "loop"
                   /\ err' = err
  /\ UNCHANGED <<literal, config, call, section, figures>>
  /\ UNCHANGED histVars

\* lines 122-126: one pass of `for x in data[1:]`
LoadSpaceRow ==
  /\ pc = "loop" /\ section \in SpaceSections
  /\ LET line == SplitSemicolon(data[k + 2])
         idx == get_index_for_space_consumption_benchmark(line[1])
         stored == ListSet(values, idx[1], FloatList(Floats(Tail(line))))
         next == IF k + 2 = Len(data) THEN "chart" ELSE "loop"
     IN  /\ k' = k + 1
         /\ IF idx = Absent
              THEN pc' = next /\ UNCHANGED <<values, err>>
            ELSE IF ~AllNumerals(Tail(line))
              THEN Fail("ValueError", "row") /\ UNCHANGED values
            ELSE IF stored = <<>>
              THEN Fail("IndexError", "row") /\ UNCHANGED values
            ELSE values' = stored[1] /\ pc' = next /\ err' = err
  /\ UNCHANGED <<literal, config, call, section, text, data, sizes, figures>>
  /\ UNCHANGED histVars

\* lines 83-110 and 128: ax.plot(sizes, [v/1024. for v in values[i]]) for
\* every entry (the "" placeholder iterates as no value), then savefig.
\* What matplotlib makes of the series is outside charts.py: the calls are
\* taken to return.
\* The next section assigns data, sizes and values anew before it reads
\* them (sizes is never read by the fourth): the model forgets them here.
create_memory_chart ==
  /\ pc = "chart" /\ section \in SpaceSections
  /\ figures' = figures \cup {FigureName(section) \o ".svg",
                              FigureName(section) \o ".png"}
  /\ section' = section + 1
  /\ pc' = "open"
  /\ text' = <<>> /\ data' = <<>> /\ k' = 0 /\ sizes' = <<>> /\ values' = <<>>
  /\ UNCHANGED <<literal, config, call, err>>
  /\ UNCHANGED histVars

\* lines 166-172: open, readline, read, split, pop, values
ReadSpeedFile ==
  /\ pc = "open" /\ section = SpeedSection
  /\ \E t \in SpeedTexts :
       LET d == Pop(SplitLines(AfterReadline(t)))
       IN  /\ text' = t
           /\ data' = d
           /\ k' = 0
           /\ values' = Placeholders
           /\ pc' = IF Len(d) = 0 THEN "chart" ELSE "loop"
  /\ UNCHANGED <<literal, config, call, section, sizes, err, figures>>
  /\ UNCHANGED histVars

\* lines 174-178: one pass of `for x in data`
LoadSpeedRow ==
  /\ pc = "loop" /\ section = SpeedSection
  /\ LET line == SplitWhitespace(data[k + 1])
         idx == get_index_for_recording_speed_benchmark(line[1])
         stored == ListSet(values, idx[1], FloatValue(Float(line[4])))
         next == IF k + 1 = Len(data) THEN "chart" ELSE "loop"
     IN  /\ k' = k + 1
         /\ IF Len(line) = 0
              THEN Fail("IndexError", "row") /\ UNCHANGED values
            ELSE IF idx = Absent
              THEN pc' = next /\ UNCHANGED <<values, err>>
            ELSE IF Len(line) < 4
              THEN Fail("IndexError", "row") /\ UNCHANGED values
            ELSE IF line[4] \notin Numerals
              THEN Fail("ValueError", "row") /\ UNCHANGED values
            ELSE IF stored = <<>>
              THEN Fail("IndexError", "row") /\ UNCHANGED values
            ELSE values' = stored[1] /\ pc' = next /\ err' = err
  /\ UNCHANGED <<literal, config, call, section, text, data, sizes, figures>>
  /\ UNCHANGED histVars

\* max(values) * 1.2 at line 71: max of no value is a ValueError; a "" among
\* floats cannot be ordered, and "" * 1.2 cannot be computed: a TypeError
MaxValues(vs) ==
  IF Len(vs) = 0 THEN "ValueError"
  ELSE IF \E i \in 1..Len(vs) : vs[i] = NoData THEN "TypeError"
  ELSE "none"

\* lines 65-80 and 180
create_performance_chart ==
  /\ pc = "chart" /\ section = SpeedSection
  /\ IF MaxValues(values) # "none"
       THEN Fail(MaxValues(values), "chart") /\ UNCHANGED figures
     ELSE /\ figures' = figures \cup {FigureName(section) \o ".svg",
                                      FigureName(section) \o ".png"}
          /\ pc' = "exit"
          /\ err' = err
  /\ UNCHANGED <<literal, config, call, section, text, data, k, sizes, values>>
  /\ UNCHANGED histVars

\* the history tool is another program: its state when it is not run
HistoryNotRun ==
  /\ dir = <<>>
  /\ git_repo = FALSE
  /\ show_ci = FALSE
  /\ run = "none"
  /\ hpc = "idle"
  /\ df = <<>>
  /\ done = 0
  /\ written = <<>>
  /\ previous = [status |-> "none", df |-> <<>>, files |-> {}]

\* lines 27-51: the list as written, then config.reverse()
ConfigSetup(lists) ==
  /\ literal \in lists
  /\ config = ReverseList(literal)

Init ==
  /\ ConfigSetup(SeqsUpTo(LoaderEntries, MaxLoadConfig))
  /\ call = [fn |-> "none", label |-> "", result |-> Absent]
  /\ section = 1
  /\ pc = "open"
  /\ text = <<>>
  /\ data = <<>>
  /\ k = 0
  /\ sizes = <<>>
  /\ values = <<>>
  /\ err = NoError
  /\ figures = {}
  /\ HistoryNotRun

Next ==
  \/ ReadSpaceFile
  \/ LoadSpaceRow
  \/ create_memory_chart
  \/ ReadSpeedFile
  \/ LoadSpeedRow
  \/ create_performance_chart

Spec == Init /\ [][Next]_vars

(***************************************************************************)
(* The matchers alone: any configuration list, any label.                  *)
(***************************************************************************)
CallSpace ==
  /\ \E label \in Labels :
       call' = [fn |-> "space", label |-> label,
                result |-> get_index_for_space_consumption_benchmark(label)]
  /\ UNCHANGED <<literal, config, section, pc, text, data, k, sizes, values,
                 err, figures>>
  /\ UNCHANGED histVars

CallSpeed ==
  /\ \E label \in Labels :
       call' = [fn |-> "speed", label |-> label,
                result |-> get_index_for_recording_speed_benchmark(label)]
  /\ UNCHANGED <<literal, config, section, pc, text, data, k, sizes, values,
                 err, figures>>
  /\ UNCHANGED histVars

InitMatcher ==
  /\ ConfigSetup(SeqsUpTo(MatcherEntries, MaxConfig))
  /\ call = [fn |-> "none", label |-> "", result |-> Absent]
  /\ section = 0
  /\ pc = "idle"
  /\ text = <<>>
  /\ data = <<>>
  /\ k = 0
  /\ sizes = <<>>
  /\ values = <<>>
  /\ err = NoError
  /\ figures = {}
  /\ HistoryNotRun

NextMatcher == CallSpace \/ CallSpeed

MatcherSpec == InitMatcher /\ [][NextMatcher]_vars

(***************************************************************************)
(* Claims about the matchers (checked under MatcherSpec).                  *)
(***************************************************************************)
\* entry i (0-based) of `config` matches the label under the rule of fn
EntryMatches(fn, i, label) ==
  IF fn = "space" THEN config[i + 1][1] = label
  ELSE label = Prefix \o config[i + 1][2]

MatchingIndices(fn, label) ==
  { i \in 0..(Len(config) - 1) : EntryMatches(fn, i, label) }

\* C1: each matcher returns the smallest index whose entry matches the label
\* under its rule, returns None exactly when no entry matches, and never
\* returns an index outside 0..len(config)-1.
C1_FirstMatchOrNone ==
  call.fn # "none" =>
    LET hits == MatchingIndices(call.fn, call.label)
    IN  /\ (call.result = Absent) <=> (hits = {})
        /\ call.result # Absent =>
             /\ call.result[1] \in 0..(Len(config) - 1)
             /\ call.result[1] \in hits
             /\ \A j \in hits : call.result[1] <= j

\* two entries match, the first of them is not entry 0, and it is returned
C1_Witness ==
  /\ call.fn = "space"
  /\ MatchingIndices("space", call.label) = {1, 2}
  /\ call.result = Index(1)

\* C6: the recording-speed matcher returns i only for the label that is
\* exactly the prefix followed by entry i's key; a label without the prefix
\* never matches, also when it equals an entry's key or display name.
C6_SpeedNeedsExactPrefix ==
  call.fn = "speed" =>
    /\ call.result # Absent =>
         call.label = Prefix \o config[call.result[1] + 1][2]
    /\ call.label \in PlainLabels => call.result = Absent

\* the label is an entry's key and display name, without the prefix: no match
C6_Witness ==
  /\ call.fn = "speed"
  /\ call.label = "A"
  /\ \E i \in 1..Len(config) : config[i] = <<"A", "A">>
  /\ call.result = Absent

\* C7 as claimed: the space-consumption matcher returns i exactly when i is
\* the first index whose result_key (second field) equals the label.
C7_MatchesResultKey ==
  call.fn = "space" =>
    \A i \in 0..(Len(config) - 1) :
      (call.result = Index(i)) <=>
        /\ config[i + 1][2] = call.label
        /\ \A j \in 0..(i - 1) : config[j + 1][2] # call.label

\* C7 amended: the space-consumption matcher returns i exactly when i is the
\* first index whose display name (first field) equals the label.
C7_MatchesDisplayName ==
  call.fn = "space" =>
    \A i \in 0..(Len(config) - 1) :
      (call.result = Index(i)) <=>
        /\ config[i + 1][1] = call.label
        /\ \A j \in 0..(i - 1) : config[j + 1][1] # call.label

\* the entry returned has another result key, and an earlier entry has the
\* label as its result key
C7_Witness ==
  /\ call.fn = "space"
  /\ call.result = Index(1)
  /\ config[2][2] # call.label
  /\ config[1][2] = call.label

(***************************************************************************)
(* Claims about the snapshot sections (checked under Spec).                *)
(***************************************************************************)
Kind == IF section \in SpaceSections THEN "space" ELSE "speed"

\* the lines the section's for loop goes through
LoopLines == IF Kind = "space" THEN Tail(data) ELSE data

FieldsOf(x) ==
  IF Kind = "space" THEN SplitSemicolon(x) ELSE SplitWhitespace(x)

\* what the loop stores for a line whose label matched
RowValue(x) ==
  IF Kind = "space" THEN FloatList(Floats(Tail(FieldsOf(x))))
  ELSE FloatValue(Float(FieldsOf(x)[4]))

HasNoData == \E i \in 1..Len(values) : values[i] = NoData

\* the line matches no entry of `config` under the section's rule
Unmatched(x) ==
  \/ Len(FieldsOf(x)) = 0
  \/ MatchingIndices(Kind, FieldsOf(x)[1]) = {}

C2_Step ==
  /\ (pc = "open" /\ pc' \in {"loop", "chart"}) => Len(values') = Len(config)
  /\ pc = "loop" =>
       /\ Len(values') = Len(config)
       /\ Unmatched(LoopLines[k + 1]) => values' = values
       /\ \A j \in 1..Len(config) :
            values'[j] # values[j] =>
              (j - 1) \in MatchingIndices(Kind, FieldsOf(LoopLines[k + 1])[1])

\* C2: `values` has len(config) entries from its creation to the end of the
\* load, a row that matches no entry changes no entry, and every entry a row
\* changes is at an index in 0..len(config)-1 that matches the row.
C2_UnmatchedRowsDropped == [][C2_Step]_vars

\* the unmatched row "C;9.0" was the last row loaded, after a matched one
C2_Witness ==
  /\ pc = "chart" /\ Kind = "space"
  /\ data[Len(data)] = <<"C", "9.0">>
  /\ Len(values) = 1
  /\ values[1] = FloatList(<<1>>)

\* C3 as claimed: chart construction does not fail when a configuration
\* entry is still at the "no data" placeholder after the load.
C3_MissingEntryNotAnError ==
  [][(pc = "chart" /\ HasNoData) => pc' # "failed"]_vars

\* the list without the empty string a terminal newline leaves at its end
PopIfEmptyLast(list) ==
  IF list[Len(list)] = EmptyLine THEN SubSeq(list, 1, Len(list) - 1) ELSE list

\* the lines of the file that are data records: all but the header line and
\* the empty string a terminal newline leaves at the end
FileRecords ==
  IF Kind = "space" THEN Tail(PopIfEmptyLast(SplitLines(text)))
  ELSE PopIfEmptyLast(SplitLines(AfterReadline(text)))

\* C4 as claimed: once a file is loaded, every data record of the file whose
\* label matches a configuration entry has its entry stored in `values`.
C4_NoRecordDiscarded ==
  pc = "chart" =>
    \A r \in 1..Len(FileRecords) :
      ~Unmatched(FileRecords[r]) =>
        \A i \in MatchingIndices(Kind, FieldsOf(FileRecords[r])[1]) :
          (\A j \in MatchingIndices(Kind, FieldsOf(FileRecords[r])[1]) : i <= j)
            => values[i + 1] # NoData

\* the entry matches the label under the section's rule
RuleMatches(entry, label) ==
  IF Kind = "space" THEN entry[1] = label ELSE label = Prefix \o entry[2]

\* the loaded rows whose label matches the entry
RowsMatching(entry) ==
  { r \in 1..Len(LoopLines) :
      /\ Len(FieldsOf(LoopLines[r])) > 0
      /\ RuleMatches(entry, FieldsOf(LoopLines[r])[1]) }

\* C5 as claimed: after a load, position i of `values` holds the value(s) of
\* a loaded row matching the i-th entry of the list as written (stated for
\* the lists without a repeated entry, where "the row matching the i-th
\* entry" leaves no doubt about the entry meant).
C5_OrderAsWritten ==
  (pc = "chart" /\ Cardinality(Range(literal)) = Len(literal)) =>
    \A i \in 1..Len(literal) :
      RowsMatching(literal[i]) # {} =>
        \E r \in RowsMatching(literal[i]) : values[i] = RowValue(LoopLines[r])

\* the entry of the list as written that position p (1-based) of `values`
\* stands for: the list is reversed before any lookup
EntryAt(p) == literal[Len(literal) + 1 - p]

\* the loaded rows that resolve to position p: they match its entry and no
\* entry at an earlier position
RowsResolvingTo(p) ==
  { r \in RowsMatching(EntryAt(p)) :
      \A q \in 1..(p - 1) : r \notin RowsMatching(EntryAt(q)) }

\* C5 amended: after a load, position i of `values` holds the value(s) of the
\* last loaded row that resolves to i in the reversed list (entry
\* len(config)-1-i of the list as written), and the placeholder if no loaded
\* row does.
C5_OrderAfterReverse ==
  pc = "chart" =>
    /\ Len(values) = Len(literal)
    /\ \A p \in 1..Len(literal) :
         values[p] =
           IF RowsResolvingTo(p) = {} THEN NoData
           ELSE RowValue(LoopLines[CHOOSE r \in RowsResolvingTo(p) :
                                     \A r2 \in RowsResolvingTo(p) : r2 <= r])

\* the list written [("A","A"),("B","B")] and the rows A;1.0 and B;2.0
C5_Witness ==
  /\ pc = "chart" /\ Kind = "space"
  /\ literal = << <<"A", "A">>, <<"B", "B">> >>
  /\ values = <<FloatList(<<2>>), FloatList(<<1>>)>>

(***************************************************************************)
(* benchmark_evaluation.py: the history tool.                              *)
(*                                                                         *)
(* A file name and a benchmark id are sequences of tokens, the separators  *)
(* " " and "." being tokens of their own; Concat gives the string.  An     *)
(* optional value (a missing JSON key, None, NaN) is <<>>, a present one   *)
(* <<v>>.  A dict and the frozenset of its items are a set of <<key,       *)
(* value>> pairs.                                                          *)
(***************************************************************************)
RECURSIVE Concat(_)
Concat(tokens) ==
  IF tokens = <<>> THEN "" ELSE Head(tokens) \o Concat(Tail(tokens))

\* sep.join(strings)
RECURSIVE JoinStr(_,_)
JoinStr(sep, strings) ==
  IF strings = <<>> THEN ""
  ELSE IF Len(strings) = 1 THEN strings[1]
  ELSE strings[1] \o sep \o JoinStr(sep, Tail(strings))

\* the strings of the model in Python's order (by code point)
StringOrder ==
  << "\nabc", "\ndef", "1", "2023-12-30 09:00:00", "2023-12-31 10:00:00",
     "2024-01-01", "2024-01-02", "DDSketch", "DynaHist", "avgt", "n",
     "ns/op", "query", "record", "thrpt", "us/op" >>

StrRank(x) == CHOOSE i \in 1..Len(StringOrder) : StringOrder[i] = x
StrLess(a, b) == StrRank(a) < StrRank(b)

\* tuples of strings compare item by item
RECURSIVE TupleLess(_,_)
TupleLess(a, b) ==
  IF a = <<>> \/ b = <<>> THEN a = <<>> /\ b # <<>>
  ELSE IF Head(a) = Head(b) THEN TupleLess(Tail(a), Tail(b))
  ELSE StrLess(Head(a), Head(b))

\* group keys (test, params, scoreUnit, mode): frozensets compare by inclusion
KeyLess(a, b) ==
  IF a[1] # b[1] THEN StrLess(a[1], b[1])
  ELSE IF a[2] # b[2] THEN a[2] \subseteq b[2]
  ELSE TupleLess(<<a[3], a[4]>>, <<b[3], b[4]>>)

\* Python's < on the values of one type
Less(type, a, b) ==
  CASE type = "str" -> StrLess(a, b)
    [] type = "tuple" -> TupleLess(a, b)
    [] type = "key" -> KeyLess(a, b)

\* the elements of a set in ascending order
Sorted(S, type) ==
  [i \in 1..Cardinality(S) |->
     CHOOSE x \in S : Cardinality({y \in S : Less(type, y, x)}) = i - 1]

\* the elements of a sequence, each once, in the order they first appear
RECURSIVE Unique(_)
Unique(seq) ==
  IF seq = <<>> THEN <<>>
  ELSE LET init == Unique(SubSeq(seq, 1, Len(seq) - 1))
           last == seq[Len(seq)]
       IN  IF last \in Range(init) THEN init ELSE Append(init, last)

\* str.rsplit(sep, n=1) and str.rsplit(sep, n=2)
LastIndexOf(tokens, sep) ==
  LET at == { i \in 1..Len(tokens) : tokens[i] = sep }
  IN  IF at = {} THEN 0 ELSE CHOOSE i \in at : \A j \in at : j <= i

RSplit1(tokens, sep) ==
  LET i == LastIndexOf(tokens, sep)
  IN  IF i = 0 THEN <<tokens>>
      ELSE <<SubSeq(tokens, 1, i - 1), SubSeq(tokens, i + 1, Len(tokens))>>

RSplit2(tokens, sep) ==
  LET a == RSplit1(tokens, sep)
  IN  IF Len(a) = 1 THEN a ELSE RSplit1(a[1], sep) \o <<a[2]>>

\* one record of a JMH result file
JsonRecord(algorithm, test, params, unit, mode, score) ==
  [ benchmark |-> <<"com", ".", "bench", ".", algorithm, ".", test>>,
    params |-> params,
    mode |-> mode,
    primaryMetric |-> [ score |-> score, scoreUnit |-> unit,
                        scoreConfidence |-> <<score - 1, score + 1>> ] ]

\* a record, and the records that differ from it in one field
JsonRecords ==
  { JsonRecord("DynaHist", "record", <<>>, "ns/op", "avgt", 10),
    JsonRecord("DDSketch", "record", <<>>, "ns/op", "avgt", 20),
    JsonRecord("DynaHist", "query", <<>>, "ns/op", "avgt", 30),
    JsonRecord("DynaHist", "record", <<{<<"n", "1">>}>>, "ns/op", "avgt", 40),
    JsonRecord("DynaHist", "record", <<>>, "us/op", "avgt", 50),
    JsonRecord("DynaHist", "record", <<>>, "ns/op", "thrpt", 60) }

\* an entry of the input directory
DirEntry(name, isfile, size, records) ==
  [name |-> name, isfile |-> isfile, size |-> size, records |-> records]

ResultFile(date, revision, records) ==
  DirEntry(<<date, " ", revision, ".", "json">>, TRUE, 2 + Len(records), records)

\* the input directories: two result files, which hold at most MaxRecords
\* records between them, a zero-byte .json file and a subdirectory
Dirs ==
  { << ResultFile("2024-01-01", "abc", SubSeq(rr[1], 1, rr[2])),
       ResultFile("2024-01-02", "def", SubSeq(rr[1], rr[2] + 1, Len(rr[1]))),
       DirEntry(<<"2024-01-03", " ", "ghi", ".", "json">>, TRUE, 0, <<>>),
       DirEntry(<<"plots">>, FALSE, 0, <<>>) >> :
      rr \in { ss \in SeqsUpTo(JsonRecords, MaxRecords) \X (0..MaxRecords) :
                 ss[2] <= Len(ss[1]) } }

\* os.listdir: the entries in any order
Listings(d) == { [i \in 1..Len(d) |-> d[p[i]]] : p \in Permutations(1..Len(d)) }

\* lines 91-97: isfile, getsize > 0, endswith(".json")
IsResultFile(e) ==
  /\ e.isfile
  /\ e.size > 0
  /\ Len(e.name) >= 2
  /\ SubSeq(e.name, Len(e.name) - 1, Len(e.name)) = <<".", "json">>

\* lines 33-40: the commit date of a revision, None without a repository
CommittedDate(revision) ==
  CASE revision = "abc" -> "2023-12-31 10:00:00"
    [] revision = "def" -> "2023-12-30 09:00:00"

get_commit_date(commit) ==
  IF git_repo THEN <<CommittedDate(commit)>> ELSE <<>>

\* lines 46-84: the row of df made from record number i (from 0) of a file
DfRow(e, i) ==
  LET rec == e.records[i + 1]
      id == RSplit2(rec.benchmark, ".")
      stem == RSplit1(RSplit1(e.name, ".")[1], " ")
  IN  [ filename |-> Concat(e.name),
        indexInFile |-> i,
        benchmarkClassPath |-> Concat(id[1]),
        algorithm |-> Concat(id[2]),
        test |-> Concat(id[3]),
        exec_date |-> Concat(stem[1]),
        revision |-> Concat(stem[2]),
        commit_date |-> get_commit_date(Concat(stem[2])),
        params |-> IF rec.params = <<>> THEN {} ELSE rec.params[1],
        mode |-> rec.mode,
        score |-> rec.primaryMetric.score,
        scoreUnit |-> rec.primaryMetric.scoreUnit,
        lower |-> rec.primaryMetric.scoreConfidence[1],
        upper |-> rec.primaryMetric.scoreConfidence[2] ]

\* line 46: pd.concat of the files' frames, in the order of the files
RECURSIVE read_data_files_json_df(_)
read_data_files_json_df(files) ==
  IF files = <<>> THEN <<>>
  ELSE [i \in 1..Len(Head(files).records) |-> DfRow(Head(files), i - 1)]
         \o read_data_files_json_df(Tail(files))

\* lines 88-101
read_data(listing) ==
  read_data_files_json_df(SelectSeq(listing, IsResultFile))

\* lines 204-206: the key df.groupby groups a row by
\* faulty variant: grouping by what the file name is made of
GroupKeyTestAndParams(row) == <<row.test, row.params, "", "">>

GroupKey(row) == <<row.test, row.params, row.scoreUnit, row.mode>>

\* groupby sorts the group keys
GroupKeys(frame) == Sorted({ GroupKey(frame[i]) : i \in 1..Len(frame) }, "key")

GroupRows(frame, key) == SelectSeq(frame, LAMBDA row : GroupKey(row) = key)

\* lines 207-211: the chart's name
ChartName(test, params) ==
  IF params = {} THEN test
  ELSE test \o " ("
         \o JoinStr(";", [i \in 1..Cardinality(params) |->
                            Sorted(params, "tuple")[i][1] \o "="
                              \o Sorted(params, "tuple")[i][2]])
         \o ")"

\* lines 119-124: the x axis of the pivot, (exec_date, commit_date, revision)
\* with the line break added to the revision
XOf(row) == <<row.exec_date, row.commit_date[1], "\n" \o row.revision>>

\* faulty variant: the x values in the order of the rows
PivotIndexInRowOrder(rows) == Unique([i \in 1..Len(rows) |-> XOf(rows[i])])

\* df.pivot sorts its index and its columns
PivotIndex(rows) == Sorted({ XOf(rows[i]) : i \in 1..Len(rows) }, "tuple")

PivotColumns(rows) ==
  Sorted({ rows[i].algorithm : i \in 1..Len(rows) }, "str")

\* df.pivot raises ValueError when two rows share index and column
PivotDuplicates(rows) ==
  \E i, j \in 1..Len(rows) :
    i # j /\ rows[i].algorithm = rows[j].algorithm
          /\ rows[i].exec_date = rows[j].exec_date
          /\ rows[i].revision = rows[j].revision

\* df_plot[column][algorithm]: per x value <<value>>, or <<>> (NaN) where
\* the group has no row
PivotColumn(rows, column, algorithm) ==
  LET index == PivotIndex(rows)
      At(x) == { i \in 1..Len(rows) :
                   XOf(rows[i]) = x /\ rows[i].algorithm = algorithm }
      Value(row) ==
        CASE column = "primaryMetric.score" -> row.score
          [] column = "primaryMetric.scoreConfidence.lower" -> row.lower
          [] column = "primaryMetric.scoreConfidence.upper" -> row.upper
  IN  [i \in 1..Len(index) |->
         IF At(index[i]) = {} THEN <<>>
         ELSE <<Value(rows[CHOOSE r \in At(index[i]) : TRUE])>>]

\* the difference of two columns, NaN where either is
Minus(a, b) ==
  [i \in 1..Len(a) |->
     IF a[i] = <<>> \/ b[i] = <<>> THEN <<>> ELSE <<a[i][1] - b[i][1]>>]

\* lines 126-157: what the figure shows
Figure(rows, name, scoreUnit, mode) ==
  LET index == PivotIndex(rows)
      columns == PivotColumns(rows)
      Score(alg) == PivotColumn(rows, "primaryMetric.score", alg)
      Lower(alg) == PivotColumn(rows, "primaryMetric.scoreConfidence.lower", alg)
      Upper(alg) == PivotColumn(rows, "primaryMetric.scoreConfidence.upper", alg)
  IN  [ title |-> name,
        ylabel |-> "score (" \o mode \o ") in " \o scoreUnit,
        xlabels |-> [i \in 1..Len(index) |-> JoinStr(",", index[i])],
        series |->
          [j \in 1..Len(columns) |->
             [ label |-> columns[j],
               y |-> Score(columns[j]),
               yerr |-> IF show_ci
                          THEN <<Minus(Score(columns[j]), Lower(columns[j])),
                                 Minus(Upper(columns[j]), Score(columns[j]))>>
                        ELSE <<>> ] ] ]

\* the files a run has written: the last figure saved under each name
FilesOf(saved) ==
  { [file |-> saved[i].file, figure |-> saved[i].figure] :
      i \in { j \in 1..Len(saved) :
                \A l \in (j + 1)..Len(saved) : saved[l].file # saved[j].file } }

\* lines 198-200: df = read_data(in_path, git_path); an empty frame has no
\* "benchmark" column (KeyError at line 53)
ReadData ==
  /\ hpc = "start"
  /\ \E listing \in Listings(dir) :
       LET frame == read_data(listing)
       IN  /\ df' = frame
           /\ hpc' = IF frame = <<>> THEN "failed" ELSE "charts"
  /\ UNCHANGED <<dir, git_repo, show_ci, run, done, written, previous>>
  /\ UNCHANGED chartVars

\* lines 204-212 and 118-166: one pass of the for loop over the groups.
\* pivot raises on duplicates; ",".join(i) at line 148 raises TypeError on
\* the missing commit date
MakeChart ==
  /\ hpc = "charts"
  /\ LET keys == GroupKeys(df)
         key == keys[done + 1]
         rows == GroupRows(df, key)
         name == ChartName(key[1], key[2])
     IN  IF PivotDuplicates(rows) \/ ~git_repo
           THEN hpc' = "failed" /\ UNCHANGED <<done, written>>
         ELSE /\ written' = Append(written,
                              [ file |-> name \o ".pdf",
                                rows |-> rows,
                                figure |-> Figure(rows, name, key[3], key[4]) ])
              /\ done' = done + 1
              /\ hpc' = IF done + 1 = Len(keys) THEN "done"
                        ELSE "charts"
  /\ UNCHANGED <<dir, git_repo, show_ci, run, df, previous>>
  /\ UNCHANGED chartVars

\* the tool is run again on the same directory with the same options: a new
\* process, which starts from nothing but the files
RunAgain ==
  /\ run = "first" /\ hpc \in {"done", "failed"}
  /\ previous' = [status |-> hpc, df |-> df, files |-> FilesOf(written)]
  /\ run' = "second"
  /\ hpc' = "start"
  /\ df' = <<>>
  /\ done' = 0
  /\ written' = <<>>
  /\ UNCHANGED <<dir, git_repo, show_ci>>
  /\ UNCHANGED chartVars

InitHistory ==
  /\ literal = <<>> /\ config = <<>>
  /\ call = [fn |-> "none", label |-> "", result |-> Absent]
  /\ section = 0 /\ pc = "idle"
  /\ text = <<>> /\ data = <<>> /\ k = 0 /\ sizes = <<>> /\ values = <<>>
  /\ err = NoError /\ figures = {}
  /\ dir \in Dirs
  /\ git_repo \in BOOLEAN
  /\ show_ci \in BOOLEAN
  /\ run = "first"
  /\ hpc = "start"
  /\ df = <<>>
  /\ done = 0
  /\ written = <<>>
  /\ previous = [status |-> "none", df |-> <<>>, files |-> {}]

NextHistory == ReadData \/ MakeChart \/ RunAgain

HistorySpec == InitHistory /\ [][NextHistory]_vars

(***************************************************************************)
(* Claims about the history tool (checked under HistorySpec).              *)
(***************************************************************************)
SameChartKey(r1, r2) ==
  /\ r1.test = r2.test
  /\ r1.params = r2.params
  /\ r1.scoreUnit = r2.scoreUnit
  /\ r1.mode = r2.mode

\* C8: two records are in the same chart exactly when they agree on test,
\* parameter set, score unit and mode; in a chart every distinct algorithm
\* is one series holding its records' scores, and all series run over the
\* chart's one x axis of (exec_date, commit_date, revision).
C8_GroupedByKey ==
  \A c \in 1..Len(written) :
    LET rows == written[c].rows
        fig == written[c].figure
        algorithms == { rows[i].algorithm : i \in 1..Len(rows) }
        instants == { <<rows[i].exec_date, rows[i].commit_date, rows[i].revision>> :
                        i \in 1..Len(rows) }
    IN  /\ \A i \in 1..Len(rows) : \A j \in 1..Len(df) :
             (df[j] \in Range(rows)) <=> SameChartKey(rows[i], df[j])
        /\ Len(fig.series) = Cardinality(algorithms)
        /\ { fig.series[s].label : s \in 1..Len(fig.series) } = algorithms
        /\ Len(fig.xlabels) = Cardinality(instants)
        /\ \A s \in 1..Len(fig.series) : Len(fig.series[s].y) = Len(fig.xlabels)
        /\ \A i \in 1..Len(rows) :
             \E s \in 1..Len(fig.series) :
               /\ fig.series[s].label = rows[i].algorithm
               /\ \E x \in 1..Len(fig.xlabels) :
                    fig.series[s].y[x] = <<rows[i].score>>

\* two records of one file that differ in the algorithm alone: one chart
\* with two series over one x value
C8_Witness ==
  /\ hpc = "done"
  /\ Len(df) = 2
  /\ Len(written) = 1
  /\ Len(written[1].figure.series) = 2
  /\ Len(written[1].figure.xlabels) = 1

\* C9 as claimed: within one run no two chart groups write the same file.
C9_OneFilePerGroup ==
  \A i, j \in 1..Len(written) : i # j => written[i].file # written[j].file

\* C10: a second run on the unchanged directory ends as the first did and
\* leaves the same files with the same figures, whatever order os.listdir
\* gave the entries in either run.
C10_SecondRunSame ==
  (run = "second" /\ hpc \in {"done", "failed"}) =>
    /\ hpc = previous.status
    /\ FilesOf(written) = previous.files

\* the two runs read the files in different orders, and a chart has a point
\* from each file
C10_Witness ==
  /\ run = "second" /\ hpc = "done"
  /\ df # previous.df
  /\ \E c \in 1..Len(written) : Len(written[c].figure.xlabels) = 2

====
